---- MODULE Spec2Model ----
(***************************************************************************)
(* Model of the MPU9225 streaming driver (mpu9225stream.py, main.py).      *)
(*                                                                         *)
(* The module globals, the device's register file and the trace of what    *)
(* the driver puts on the I2C bus are the state.  Every function of the    *)
(* driver is an operator on a "world" record (the globals, the device and  *)
(* the bus trace) that returns the new world, the exception it raised      *)
(* ("none" when it returned) and its value; an action calls one function   *)
(* and stores the world it leaves behind.                                  *)
(*                                                                         *)
(* Specifications:                                                         *)
(*   SpecI2c     i2c() / set_i2c_bus() in any order                        *)
(*   SpecSend    ax_send() against a transport that fails a run of calls   *)
(*   SpecMasked  ax_write_masked() on a register holding any byte          *)
(*   SpecInit    init_accelerometer() against a device that comes and goes *)
(*   SpecInitFair  the same, the driver's thread always being scheduled    *)
(*   SpecReadBuf read_buf() against an arbitrary tick counter              *)
(*   SpecReadBufFair  the same, the driver's thread always being scheduled *)
(*   SpecAccess  ax_read() / ax_write() against a faulty transport         *)
(*   SpecDecode  twos_complement() on every 16-bit raw value               *)
(*   SpecDouble  ax_read_double() on registers holding any two bytes       *)
(***************************************************************************)
EXTENDS Integers, Sequences, FiniteSets, TLC

-----------------------------------------------------------------------------
(* Constants of mpu9225stream.py *)

FULL_SCALE_CHOICE == 2
AX_ADDR == 104
ACCEL_XOUT_H == 59
ACCEL_XOUT_L == 60
ACCEL_YOUT_H == 61
ACCEL_YOUT_L == 62
ACCEL_ZOUT_H == 63
ACCEL_ZOUT_L == 64
PWR_MGMT_1 == 107
PWR_MGMT_1_CLKSEL_MASK == 7
PWR_MGMT_1_SLEEP_MASK == 64
ACCEL_CONFIG == 28
ACCEL_FS_SEL_MASK == 24
\* TOP_16BIT = const(65536)
TOP_16BIT == 65536
\* _i2c_default_bus = 1 at import
InitialDefaultBus == 1
\* baudrate: int=400000
DefaultBaudrate == 400000
\* max_attempts: int=10
DefaultMaxAttempts == 10
\* pyb.delay(1000) between two discovery rounds
PollDelay == 1000

\* The field values, not shifted to the field's place
FULL_SCALE_unshifted == (2 :> 0) @@ (4 :> 1) @@ (8 :> 2) @@ (16 :> 3)

\* FULL_SCALE = {2: 0 << 3, 4: 1 << 3, 8: 2 << 3, 16: 3 << 3}
FULL_SCALE == (2 :> 0 * 8) @@ (4 :> 1 * 8) @@ (8 :> 2 * 8) @@ (16 :> 3 * 8)

\* The registers the driver names; the device holds one byte in each.
Registers ==
    {ACCEL_XOUT_H, ACCEL_XOUT_L, ACCEL_YOUT_H, ACCEL_YOUT_L, ACCEL_ZOUT_H,
     ACCEL_ZOUT_L, PWR_MGMT_1, ACCEL_CONFIG}

Bytes == 0..255

-----------------------------------------------------------------------------
(* Bounds of the model *)

\* I2C buses 1..MaxBus can be asked for
MaxBus == 3
\* i2c() and set_i2c_bus() calls counted up to MaxCalls
MaxCalls == 3
\* largest max_attempts handed to ax_send in SpecSend
MaxMaxAttempts == 10
\* longest run of consecutive transport failures
MaxFailRun == 11

-----------------------------------------------------------------------------
(* Python's integers: &, |, ~ on unbounded two's complement numbers.       *)
(* A number is its lowest bit and the number shifted right by one (floor   *)
(* division); 0 and -1 are the two numbers that shift to themselves.       *)

RECURSIVE And(_, _)
And(a, b) ==
    IF a = 0 \/ b = 0 THEN 0
    ELSE IF a = -1 THEN b
    ELSE IF b = -1 THEN a
    ELSE (a % 2) * (b % 2) + 2 * And(a \div 2, b \div 2)

RECURSIVE Or(_, _)
Or(a, b) ==
    IF a = -1 \/ b = -1 THEN -1
    ELSE IF a = 0 THEN b
    ELSE IF b = 0 THEN a
    ELSE (IF a % 2 = 1 \/ b % 2 = 1 THEN 1 ELSE 0) + 2 * Or(a \div 2, b \div 2)

Not(a) == -a - 1

-----------------------------------------------------------------------------
VARIABLES
    \* module globals of mpu9225stream.py
    i2c_object,        \* _i2c_object: NoneObj or the I2C handle
    i2c_default_bus,   \* _i2c_default_bus
    constructed,       \* how many times I2C(...) has been constructed
    \* the device behind AX_ADDR and the bus
    regs,              \* register address -> byte held
    reg_ptr,           \* register selected by the last one-byte send
    log,               \* bus and delay events of the operation in progress / last run
    \* the call in progress or last made
    pc,                \* which function was called and how it ended
    args,              \* its arguments and the transport's fault
    exc,               \* the exception it raised, "none" if it returned
    ret,               \* its return value
    \* i2c() bookkeeping
    h_first,           \* the handle the first i2c() call returned
    h_calls,           \* i2c() calls made so far
    h_set,             \* bus of the last set_i2c_bus() made before the handle existed, 0 if none
    h_defaulted,       \* the constructing i2c() call left bus_no to its default
    \* init_accelerometer
    init_pc,           \* where init_accelerometer stands
    rounds,            \* discovery rounds that ended in the poll delay (counted to MaxRounds)
    present,           \* the device answers a scan now
    ready,             \* the device answers is_ready now
    init_fault,        \* the transport's fault during this init_accelerometer run
    full_scale_choice, \* FULL_SCALE_CHOICE
    do_scan,           \* init_accelerometer's argument
    \* read_buf
    rb_pc, rb_i, number_of_samples, sample_period, prev_t, t, buf

gvars == <<i2c_object, i2c_default_bus, constructed>>
dvars == <<regs, reg_ptr, log>>
cvars == <<pc, args, exc, ret>>
hvars == <<h_first, h_calls, h_set, h_defaulted>>
ivars == <<init_pc, rounds, present, ready, init_fault, full_scale_choice, do_scan>>
rvars == <<rb_pc, rb_i, number_of_samples, sample_period, prev_t, t, buf>>
vars == <<gvars, dvars, cvars, hvars, ivars, rvars>>

\* _i2c_object = None
NoneObj == [id |-> 0, bus |-> 0, baudrate |-> 0]

NoFault == [from |-> 1, len |-> 0]
NoArgs == [fn |-> "none"]

-----------------------------------------------------------------------------
(* The world a driver function runs in *)

World(fault) ==
    [obj |-> i2c_object, made |-> constructed, regs |-> regs, ptr |-> reg_ptr,
     log |-> <<>>, fault |-> fault]

\* The world a function left behind becomes the state.
Commit(w) ==
    /\ i2c_object' = w.obj
    /\ constructed' = w.made
    /\ regs' = w.regs
    /\ reg_ptr' = w.ptr
    /\ log' = w.log

Event(op, data, ok) == [op |-> op, data |-> data, ok |-> ok]

Emit(w, e) == [w EXCEPT !.log = Append(@, e)]

\* Transport calls (send, recv) made so far in this operation
TransportCalls(w) == Len(SelectSeq(w.log, LAMBDA e : e.op \in {"send", "recv"}))

\* The transport fails calls number fault.from .. fault.from + fault.len - 1
\* of the operation and serves the others.
TransportFails(w) ==
    LET n == TransportCalls(w) + 1
    IN  w.fault.from <= n /\ n < w.fault.from + w.fault.len

Result(w, e, v) == [w |-> w, exc |-> e, val |-> v]

\* The element of a one-element set.  An intermediate result r of a function
\* is named by `The({ ... r ... : r \in {e} })`: r is the value of e in what
\* follows, as a local name bound by an assignment is.
The(S) == CHOOSE y \in S : TRUE

-----------------------------------------------------------------------------
(* i2c(), set_i2c_bus() *)

\* `bus_no: int=_i2c_default_bus`: the default is evaluated once, when the
\* def statement runs, so it is the value _i2c_default_bus had at import.
i2c_bus_no_default == InitialDefaultBus

needs_construct_always(obj) == TRUE

\* if _i2c_object is None
needs_construct(obj) == obj = NoneObj

\* i2c(bus_no, baudrate)
i2c(w, bus_no, baudrate) ==
    IF needs_construct(w.obj)
    THEN [w EXCEPT !.obj = [id |-> w.made + 1, bus |-> bus_no, baudrate |-> baudrate],
                   !.made = @ + 1]
    ELSE w

\* i2c() as the driver calls it, with no arguments
i2c0(w) == i2c(w, i2c_bus_no_default, DefaultBaudrate)

Buses == 1..MaxBus
Baudrates == {100000, DefaultBaudrate}

InitGlobals ==
    /\ i2c_object = NoneObj
    /\ i2c_default_bus = InitialDefaultBus
    /\ constructed = 0

InitDevice ==
    /\ regs = [r \in Registers |-> 0]
    /\ reg_ptr = ACCEL_XOUT_H
    /\ log = <<>>

InitCall ==
    /\ pc = "idle"
    /\ args = NoArgs
    /\ exc = "none"
    /\ ret = 0

InitHandle ==
    /\ h_first = NoneObj
    /\ h_calls = 0
    /\ h_set = 0
    /\ h_defaulted = FALSE

InitInitIdle ==
    /\ init_pc = "idle"
    /\ rounds = 0
    /\ present = FALSE
    /\ ready = FALSE
    /\ init_fault = NoFault
    /\ full_scale_choice = FULL_SCALE_CHOICE
    /\ do_scan = TRUE

InitReadBufIdle ==
    /\ rb_pc = "idle"
    /\ rb_i = 0
    /\ number_of_samples = 0
    /\ sample_period = 0
    /\ prev_t = 0
    /\ t = -1
    /\ buf = <<>>

\* i2c(bus_no=..., baudrate=...), either argument possibly left out
I2cCall ==
    /\ h_calls < MaxCalls
    /\ \E defaulted \in BOOLEAN, b \in Buses, baudrate \in Baudrates :
         \E bus_no \in {IF defaulted THEN i2c_bus_no_default ELSE b} :
         \E w \in {i2c(World(NoFault), bus_no, baudrate)} :
             /\ Commit(w)
             /\ ret' = w.obj
             /\ pc' = "i2c"
             /\ args' = [fn |-> "i2c", bus_no |-> bus_no, baudrate |-> baudrate]
             /\ exc' = "none"
             /\ h_calls' = h_calls + 1
             /\ h_first' = IF h_calls = 0 THEN w.obj ELSE h_first
             /\ h_defaulted' = IF i2c_object = NoneObj THEN defaulted ELSE h_defaulted
             /\ h_set' = h_set
    /\ UNCHANGED <<i2c_default_bus, ivars, rvars>>

\* set_i2c_bus(bus_no)
SetI2cBus ==
    /\ \E bus_no \in Buses :
         /\ i2c_default_bus' = bus_no
         /\ h_set' = IF i2c_object = NoneObj THEN bus_no ELSE h_set
         /\ args' = [fn |-> "set_i2c_bus", bus_no |-> bus_no]
    /\ pc' = "set_i2c_bus"
    /\ exc' = "none"
    /\ ret' = 0
    /\ UNCHANGED <<i2c_object, constructed, dvars, h_first, h_calls, h_defaulted,
                   ivars, rvars>>

InitI2c ==
    InitGlobals /\ InitDevice /\ InitCall /\ InitHandle /\ InitInitIdle /\ InitReadBufIdle

NextI2c == I2cCall \/ SetI2cBus

SpecI2c == InitI2c /\ [][NextI2c]_vars

\* C9: over any sequence of i2c() and set_i2c_bus() calls the I2C peripheral is
\* constructed at most once, and every i2c() call returns the handle the first
\* call returned.
C9_SingleHandle ==
    /\ constructed <= 1
    /\ pc = "i2c" => (ret # NoneObj /\ ret = h_first /\ ret = i2c_object)

\* A later i2c() call asking for another bus than the handle's has returned.
C9_Witness ==
    /\ pc = "i2c"
    /\ h_calls >= 2
    /\ args.bus_no # ret.bus
    /\ i2c_default_bus # ret.bus

\* C8 as claimed: a set_i2c_bus(b) made before the first i2c() call decides the
\* bus of the handle that call constructs (bus_no left to its default).
C8_ConfiguredBusWins ==
    (i2c_object # NoneObj /\ h_defaulted /\ h_set # 0) => i2c_object.bus = h_set

-----------------------------------------------------------------------------
(* The transport and the device behind it *)

\* pyb.delay(ms); the amount is kept in half milliseconds, the unit of the
\* backoff's base delay 0.5
Delay(w, half_ms) == Emit(w, Event("delay", <<half_ms>>, TRUE))

\* i2c().send(data, addr=AX_ADDR): a one-byte send selects a register, a
\* two-byte send writes the second byte into the register the first names.
I2cSend(w, data) ==
    The({ IF TransportFails(w1)
          THEN Result(Emit(w1, Event("send", data, FALSE)), "OSError", 0)
          ELSE Result([w1 EXCEPT !.log = Append(@, Event("send", data, TRUE)),
                                 !.ptr = data[1],
                                 !.regs = IF Len(data) = 2
                                          THEN [@ EXCEPT ![data[1]] = data[2]]
                                          ELSE @],
                      "none", 0)
          : w1 \in {i2c0(w)} })

\* i2c().recv(1, addr=AX_ADDR): the byte of the selected register
I2cRecv(w) ==
    The({ IF TransportFails(w1)
          THEN Result(Emit(w1, Event("recv", <<w1.ptr>>, FALSE)), "OSError", 0)
          ELSE Result(Emit(w1, Event("recv", <<w1.ptr>>, TRUE)), "none", w1.regs[w1.ptr])
          : w1 \in {i2c0(w)} })

-----------------------------------------------------------------------------
(* ax_send *)

\* 0.5 * 2 ** attempts milliseconds, in half milliseconds
backoff_delay_flat(attempts) == 1

backoff_delay(attempts) == 2 ^ attempts

may_attempt_once_more(attempts, max_attempts) == attempts <= max_attempts

\* while attempts < max_attempts
may_attempt(attempts, max_attempts) == attempts < max_attempts

RECURSIVE ax_send_loop(_, _, _, _)
ax_send_loop(w, data, attempts, max_attempts) ==
    IF may_attempt(attempts, max_attempts)
    THEN The({ IF r.exc = "none" THEN Result(r.w, "none", 0)
               ELSE ax_send_loop(Delay(r.w, backoff_delay(attempts)), data,
                                 attempts + 1, max_attempts)
               : r \in {I2cSend(w, data)} })
    ELSE Result(w, "OSError", 0)

ax_send(w, data, max_attempts) == ax_send_loop(w, data, 0, max_attempts)

\* What ax_send is given to send: a register address, or a register and a byte
SendData == {<<PWR_MGMT_1>>, <<ACCEL_CONFIG, 8>>}

\* ax_send(data, max_attempts) against a transport failing its first k calls
AxSendCall ==
    /\ \E data \in SendData, max_attempts \in 0..MaxMaxAttempts, k \in 0..MaxFailRun :
         \E fault \in {[from |-> 1, len |-> k]} :
         \E r \in {ax_send(World(fault), data, max_attempts)} :
             /\ Commit(r.w)
             /\ exc' = r.exc
             /\ ret' = r.val
             /\ args' = [fn |-> "ax_send", data |-> data,
                         max_attempts |-> max_attempts, fault |-> fault]
    /\ pc' = "ax_send"
    /\ UNCHANGED <<i2c_default_bus, hvars, ivars, rvars>>

InitSend ==
    InitGlobals /\ InitDevice /\ InitCall /\ InitHandle /\ InitInitIdle /\ InitReadBufIdle

NextSend == AxSendCall

SpecSend == InitSend /\ [][NextSend]_vars

Sends(l) == Len(SelectSeq(l, LAMBDA e : e.op = "send"))
Delays(l) == SelectSeq(l, LAMBDA e : e.op = "delay")

\* C4: against a transport that fails the first k < max_attempts sends and then
\* succeeds, ax_send returns after exactly k + 1 sends; after failed send
\* number a (a = 0..k-1) it waits base_delay * 2^a, base_delay being 0.5 ms
\* (one half millisecond), so the k delays double and strictly increase.
C4_RetryBackoff ==
    (pc = "ax_send" /\ args.fault.len < args.max_attempts) =>
        LET k == args.fault.len
        IN  /\ exc = "none"
            /\ Sends(log) = k + 1
            /\ Len(Delays(log)) = k
            /\ Len(log) = 2 * k + 1
            /\ \A a \in 0..(k - 1) :
                 /\ log[2 * a + 1] = Event("send", args.data, FALSE)
                 /\ log[2 * a + 2] = Event("delay", <<1 * 2 ^ a>>, TRUE)
            /\ log[2 * k + 1] = Event("send", args.data, TRUE)
            /\ \A a \in 1..(k - 1) :
                 /\ Delays(log)[a + 1].data[1] = 2 * Delays(log)[a].data[1]
                 /\ Delays(log)[a + 1].data[1] > Delays(log)[a].data[1]

\* ax_send has returned after three failed sends.
C4_Witness ==
    /\ pc = "ax_send"
    /\ args.fault.len = 3
    /\ args.max_attempts = DefaultMaxAttempts
    /\ exc = "none"
    /\ Len(Delays(log)) = 3

\* C5: against a transport whose sends all fail, ax_send makes exactly
\* max_attempts sends and raises OSError; and it returns normally only if one
\* send succeeded.
C5_ExhaustionRaises ==
    pc = "ax_send" =>
        /\ args.fault.len >= args.max_attempts =>
             /\ exc = "OSError"
             /\ Sends(log) = args.max_attempts
             /\ \A n \in 1..Len(log) : log[n].op = "send" => ~log[n].ok
        /\ exc = "none" => \E n \in 1..Len(log) : log[n] = Event("send", args.data, TRUE)

\* ax_send has raised after the default ten failed sends.
C5_Witness ==
    /\ pc = "ax_send"
    /\ args.max_attempts = DefaultMaxAttempts
    /\ args.fault.len > DefaultMaxAttempts
    /\ exc = "OSError"
    /\ Sends(log) = DefaultMaxAttempts

-----------------------------------------------------------------------------
(* ax_read, ax_write, ax_write_masked *)

\* What a function returning nothing returns
None == <<>>

\* ax_read(reg, convert): select the register, then receive its byte; the byte
\* as an integer when convert, else the one-byte payload itself
ax_read(w, reg, convert) ==
    The({ IF s.exc # "none" THEN s
          ELSE The({ IF r.exc # "none" THEN r
                     ELSE Result(r.w, "none", IF convert THEN r.val ELSE <<r.val>>)
                     : r \in {I2cRecv(s.w)} })
          : s \in {ax_send(w, <<reg>>, DefaultMaxAttempts)} })

\* ax_write(reg, value): bytearray([reg, value]) takes only bytes
ax_write(w, reg, value) ==
    IF reg \notin Bytes \/ value \notin Bytes THEN Result(w, "ValueError", None)
    ELSE ax_send(w, <<reg, value>>, DefaultMaxAttempts)

masked_val_unmasked(value, bitmask) == value

\* masked_val = value & bitmask
masked_val(value, bitmask) == And(value, bitmask)

\* reg_val = (old_val & ~bitmask) | masked_val
reg_val(old_val, bitmask, masked) == Or(And(old_val, Not(bitmask)), masked)

\* The masked value written without waiting for the register's old value
ax_write_masked_unread(w, reg, value, bitmask, read_after) ==
    The({ IF wr.exc # "none" THEN wr
          ELSE ax_read(wr.w, reg, TRUE)
          : wr \in {ax_write(w, reg, masked_val(value, bitmask))} })

ax_write_masked(w, reg, value, bitmask, read_after) ==
    The({ IF old.exc # "none" THEN old
          ELSE The({ IF wr.exc # "none" THEN wr
                     ELSE IF read_after THEN ax_read(wr.w, reg, TRUE)
                     ELSE Result(wr.w, "none", None)
                     : wr \in {ax_write(old.w, reg,
                                        reg_val(old.val, bitmask,
                                                masked_val(value, bitmask)))} })
          : old \in {ax_read(w, reg, TRUE)} })

\* The faults of SpecMasked: none, or a run of 1 or DefaultMaxAttempts failing
\* transport calls that starts at call 1..MaxFaultFrom of the operation
MaxFaultFrom == 3
Faults ==
    {NoFault} \cup
    [from : 1..MaxFaultFrom, len : {1, DefaultMaxAttempts}]

MaskedValues == {-1, 0, 1, 24, 165, 421}
Bitmasks == {0, PWR_MGMT_1_CLKSEL_MASK, ACCEL_FS_SEL_MASK, PWR_MGMT_1_SLEEP_MASK, 90, 255, 511}

\* ax_write_masked(reg, value, bitmask, read_after)
AxWriteMaskedCall ==
    /\ pc = "idle"
    /\ \E reg \in {PWR_MGMT_1, ACCEL_CONFIG}, value \in MaskedValues,
          bitmask \in Bitmasks, read_after \in BOOLEAN, fault \in Faults :
         \E r \in {ax_write_masked(World(fault), reg, value, bitmask, read_after)} :
             /\ Commit(r.w)
             /\ exc' = r.exc
             /\ ret' = r.val
             /\ args' = [fn |-> "ax_write_masked", reg |-> reg, value |-> value,
                         bitmask |-> bitmask, read_after |-> read_after,
                         fault |-> fault, old |-> regs[reg]]
    /\ pc' = "ax_write_masked"
    /\ UNCHANGED <<i2c_default_bus, hvars, ivars, rvars>>

\* The register ax_write_masked is called on holds any byte.
InitMasked ==
    /\ InitGlobals /\ InitCall /\ InitHandle /\ InitInitIdle /\ InitReadBufIdle
    /\ \E old \in Bytes :
         regs = [r \in Registers |-> IF r \in {PWR_MGMT_1, ACCEL_CONFIG} THEN old ELSE 0]
    /\ reg_ptr = ACCEL_XOUT_H
    /\ log = <<>>

NextMasked == AxWriteMaskedCall

SpecMasked == InitMasked /\ [][NextMasked]_vars

\* Bit number i of an integer (two's complement)
Bit(n, i) == (n \div (2 ^ i)) % 2

\* The register writes put on the bus: the two-byte sends
IsWrite(e) == e.op = "send" /\ Len(e.data) = 2

\* C6: every byte ax_write_masked sends to the register is
\* (old & ~mask) | (value & mask): bit by bit, the value's bit where the mask
\* has a one and the old byte's bit where it has a zero; and the register
\* holds that byte once a write was served.
C6_MaskedWrite ==
    pc = "ax_write_masked" =>
        \A n \in 1..Len(log) :
            IsWrite(log[n]) =>
                /\ log[n].data[1] = args.reg
                /\ log[n].data[2] \in Bytes
                /\ \A i \in 0..7 :
                     Bit(log[n].data[2], i) =
                        IF Bit(args.bitmask, i) = 1 THEN Bit(args.value, i)
                        ELSE Bit(args.old, i)
                /\ log[n].ok => regs[args.reg] = log[n].data[2]

\* A write was served where both the value and the old byte have ones outside
\* the mask, and the register changed.
C6_Witness ==
    /\ pc = "ax_write_masked"
    /\ exc = "none"
    /\ \E n \in 1..Len(log) : IsWrite(log[n]) /\ log[n].ok
    /\ \E i \in 0..7 : Bit(args.bitmask, i) = 0 /\ Bit(args.value, i) = 1 /\ Bit(args.old, i) = 0
    /\ \E i \in 0..7 : Bit(args.bitmask, i) = 0 /\ Bit(args.value, i) = 0 /\ Bit(args.old, i) = 1
    /\ regs[args.reg] # args.old

-----------------------------------------------------------------------------
(* init_accelerometer *)

\* The world of a step that carries on the trace of the steps before it
WorldOn(fault) == [World(fault) EXCEPT !.log = log]

\* i2c().scan(): the addresses that answer
Slaves(is_present) == IF is_present THEN {AX_ADDR} ELSE {}

check_ready_always(scan, slaves) == TRUE

\* check_ready after the scan: False when do_scan and AX_ADDR is not in slaves
check_ready_of(scan, slaves) == ~(scan /\ AX_ADDR \notin slaves)

round_breaks_unready(check_ready, is_ready) == check_ready

\* `break` is reached when readiness was checked and is_ready returned True
round_breaks(check_ready, is_ready) == check_ready /\ is_ready

\* One pass of the `while True` loop: val is TRUE when it breaks
discovery_round(w, scan, is_present, is_ready) ==
    LET check_ready == check_ready_of(scan, Slaves(is_present))
    IN  The({ IF round_breaks(check_ready, is_ready) THEN Result(w2, "none", TRUE)
              ELSE Result(Delay(w2, 2 * PollDelay), "none", FALSE)
              : w2 \in { The({ IF check_ready
                                THEN Emit(i2c0(w1), Event("is_ready", <<AX_ADDR>>, is_ready))
                                ELSE w1
                                : w1 \in { IF scan
                                           THEN Emit(i2c0(w),
                                                     Event("scan", Slaves(is_present), TRUE))
                                           ELSE w } }) } })

MaxRounds == 3
MaxInitFaultFrom == 9

InitFaults ==
    {NoFault} \cup [from : 1..MaxInitFaultFrom, len : {1, DefaultMaxAttempts}]

\* What the two configuration registers may hold when the driver starts
InitialConfigBytes == {64, 165}

\* init_accelerometer(do_scan) is called
InitInit ==
    /\ InitGlobals /\ InitHandle /\ InitReadBufIdle
    /\ pc = "init_accelerometer"
    /\ exc = "none"
    /\ ret = 0
    /\ \E b \in InitialConfigBytes :
         /\ regs = [r \in Registers |-> IF r \in {PWR_MGMT_1, ACCEL_CONFIG} THEN b ELSE 0]
         /\ args = [fn |-> "init_accelerometer", old |-> b]
    /\ reg_ptr = ACCEL_XOUT_H
    /\ log = <<>>
    /\ init_pc = "discover"
    /\ rounds = 0
    /\ present \in BOOLEAN
    /\ ready \in BOOLEAN
    /\ init_fault \in InitFaults
    /\ full_scale_choice \in {2, 3, 4, 8, 16}
    /\ do_scan \in BOOLEAN

\* lines 121-134, one round
InitRound ==
    /\ init_pc = "discover"
    /\ \E r \in {discovery_round(World(init_fault), do_scan, present, ready)} :
           /\ Commit(r.w)
           /\ init_pc' = IF r.val THEN "set_clock" ELSE "discover"
           /\ rounds' = IF r.val \/ rounds = MaxRounds THEN rounds ELSE rounds + 1
           /\ exc' = r.exc
    /\ UNCHANGED <<i2c_default_bus, pc, args, ret, hvars, present, ready, init_fault,
                   full_scale_choice, do_scan, rvars>>

\* The exception caught and the configuration carried on
ConfigStepSwallowing(res, next_pc) ==
    /\ \E r \in {res} :
         /\ Commit(r.w)
         /\ exc' = r.exc
         /\ init_pc' = next_pc
    /\ UNCHANGED <<i2c_default_bus, pc, args, ret, hvars, rounds, present, ready,
                   init_fault, full_scale_choice, do_scan, rvars>>

\* A configuration step ended: the next step, or the exception leaves
\* init_accelerometer
ConfigStep(res, next_pc) ==
    /\ \E r \in {res} :
         /\ Commit(r.w)
         /\ exc' = r.exc
         /\ init_pc' = IF r.exc = "none" THEN next_pc ELSE "raised"
    /\ UNCHANGED <<i2c_default_bus, pc, args, ret, hvars, rounds, present, ready,
                   init_fault, full_scale_choice, do_scan, rvars>>

\* line 137
InitSetClock ==
    /\ init_pc = "set_clock"
    /\ ConfigStep(ax_write_masked(WorldOn(init_fault), PWR_MGMT_1, 1,
                                  PWR_MGMT_1_CLKSEL_MASK, FALSE),
                  "set_full_scale")

\* line 140: FULL_SCALE[FULL_SCALE_CHOICE] is looked up before the call
InitSetFullScale ==
    /\ init_pc = "set_full_scale"
    /\ ConfigStep(IF full_scale_choice \in DOMAIN FULL_SCALE
                  THEN ax_write_masked(WorldOn(init_fault), ACCEL_CONFIG,
                                       FULL_SCALE[full_scale_choice],
                                       ACCEL_FS_SEL_MASK, FALSE)
                  ELSE Result(WorldOn(init_fault), "KeyError", None),
                  "disable_sleep")

\* line 143
InitDisableSleep ==
    /\ init_pc = "disable_sleep"
    /\ ConfigStep(ax_write_masked(WorldOn(init_fault), PWR_MGMT_1, 0,
                                  PWR_MGMT_1_SLEEP_MASK, FALSE),
                  "done")

\* The device appears, disappears, becomes ready or stops being ready.
DeviceChange ==
    /\ \E p \in BOOLEAN, r \in BOOLEAN :
         /\ <<p, r>> # <<present, ready>>
         /\ present' = p
         /\ ready' = r
    /\ UNCHANGED <<gvars, dvars, cvars, hvars, init_pc, rounds, init_fault,
                   full_scale_choice, do_scan, rvars>>

NextInit == InitRound \/ InitSetClock \/ InitSetFullScale \/ InitDisableSleep \/ DeviceChange

SpecInit == InitInit /\ [][NextInit]_vars

\* What the driver does next
InitStep == InitRound \/ InitSetClock \/ InitSetFullScale \/ InitDisableSleep

\* The driver is the only thread and it is always running: the step it is
\* at is taken.
SpecInitFair == SpecInit /\ WF_vars(InitStep)

\* C7 as claimed: with a full-scale range outside {2, 4, 8, 16},
\* init_accelerometer puts no register write on the bus.
C7_RejectedBeforeAnyWrite ==
    full_scale_choice \notin DOMAIN FULL_SCALE =>
        \A n \in 1..Len(log) : ~IsWrite(log[n])

\* C10: a discovery round that does not find the device present and ready
\* neither raises nor returns: it ends in the poll delay and discovery goes
\* on; discovery is left only for the configuration, on a ready device; and
\* when the device stays present and ready from some time on (no transport
\* fault, a legal range), init_accelerometer reaches its terminal state with
\* the device configured and awake.
C10_DiscoveryNeverGivesUp ==
    /\ [][(init_pc = "discover" /\ present' = present /\ ready' = ready
             /\ ((do_scan /\ ~present) \/ ~ready))
          => (/\ init_pc' = "discover"
              /\ exc' = "none"
              /\ log' # <<>>
              /\ log'[Len(log')] = Event("delay", <<2 * PollDelay>>, TRUE))]_vars
    /\ [][(init_pc = "discover" /\ init_pc' # "discover")
          => (init_pc' = "set_clock" /\ ready /\ (do_scan => present))]_vars
    /\ (/\ init_fault = NoFault
        /\ full_scale_choice \in DOMAIN FULL_SCALE
        /\ <>[](present /\ ready))
       => <>(/\ init_pc = "done"
             /\ And(regs[PWR_MGMT_1], PWR_MGMT_1_SLEEP_MASK) = 0
             /\ And(regs[PWR_MGMT_1], PWR_MGMT_1_CLKSEL_MASK) = 1
             /\ And(regs[ACCEL_CONFIG], ACCEL_FS_SEL_MASK) = FULL_SCALE[full_scale_choice])

\* init_accelerometer is done after MaxRounds rounds that ended in the delay.
C10_Witness ==
    /\ init_pc = "done"
    /\ rounds = MaxRounds
    /\ init_fault = NoFault

-----------------------------------------------------------------------------
(* twos_complement, ax_read_double, ax_x, ax_y, ax_z *)

twos_complement_unsigned(val, num_bits) == val

\* twos_complement(val, num_bits)
twos_complement(val, num_bits) ==
    LET mask == 2 ^ (num_bits - 1)
    IN  -And(val, mask) + And(val, Not(mask))

\* The low register read first
ax_read_double_low_first(w, addr_h, addr_l, as_list) ==
    The({ IF res_l.exc # "none" THEN res_l
          ELSE The({ IF res_h.exc # "none" THEN res_h
                     ELSE Result(res_h.w, "none",
                                 IF as_list THEN <<res_h.val, res_l.val>>
                                 ELSE res_h.val * 256 + res_l.val)
                     : res_h \in {ax_read(res_l.w, addr_h, TRUE)} })
          : res_l \in {ax_read(w, addr_l, TRUE)} })

\* The two bytes taken for each other
ax_read_double_swapped(w, addr_h, addr_l, as_list) ==
    The({ IF res_h.exc # "none" THEN res_h
          ELSE The({ IF res_l.exc # "none" THEN res_l
                     ELSE Result(res_l.w, "none",
                                 IF as_list THEN <<res_l.val, res_h.val>>
                                 ELSE res_l.val * 256 + res_h.val)
                     : res_l \in {ax_read(res_h.w, addr_l, TRUE)} })
          : res_h \in {ax_read(w, addr_h, TRUE)} })

\* ax_read_double(addr_h, addr_l, as_list)
ax_read_double(w, addr_h, addr_l, as_list) ==
    The({ IF res_h.exc # "none" THEN res_h
          ELSE The({ IF res_l.exc # "none" THEN res_l
                     ELSE Result(res_l.w, "none",
                                 IF as_list THEN <<res_h.val, res_l.val>>
                                 ELSE res_h.val * 256 + res_l.val)
                     : res_l \in {ax_read(res_h.w, addr_l, TRUE)} })
          : res_h \in {ax_read(w, addr_h, TRUE)} })

\* twos_complement(ax_read_double(H, L), 16) * FULL_SCALE_CHOICE // 4
ax_axis(w, addr_h, addr_l) ==
    The({ IF d.exc # "none" THEN d
          ELSE Result(d.w, "none", (twos_complement(d.val, 16) * FULL_SCALE_CHOICE) \div 4)
          : d \in {ax_read_double(w, addr_h, addr_l, FALSE)} })

ax_x(w) == ax_axis(w, ACCEL_XOUT_H, ACCEL_XOUT_L)
ax_y(w) == ax_axis(w, ACCEL_YOUT_H, ACCEL_YOUT_L)
ax_z(w) == ax_axis(w, ACCEL_ZOUT_H, ACCEL_ZOUT_L)

-----------------------------------------------------------------------------
(* read_buf *)

\* utime.ticks_us() counts modulo TicksPeriod (2^30 on the board)
TicksPeriod == 8
MaxSamples == 3
MaxSamplePeriod == 4

Ticks == 0..(TicksPeriod - 1)

\* utime.ticks_diff(ticks1, ticks2): the difference folded into
\* [-TicksPeriod/2, TicksPeriod/2)
ticks_diff(ticks1, ticks2) ==
    ((ticks1 - ticks2 + TicksPeriod \div 2) % TicksPeriod) - TicksPeriod \div 2

too_early_plain(now, prev, period) == now - prev < period

\* if utime.ticks_diff(t, prev_t) < sample_period: continue
too_early(now, prev, period) == ticks_diff(now, prev) < period

\* The y axis read before the x axis
append_sample_y_first(w, b, now) ==
    The({ IF y.exc # "none" THEN Result(y.w, y.exc, Append(b, now))
          ELSE The({ IF x.exc # "none" THEN Result(x.w, x.exc, Append(b, now))
                     ELSE The({ IF z.exc # "none"
                                THEN Result(z.w, z.exc, b \o <<now, x.val, y.val>>)
                                ELSE Result(z.w, "none", b \o <<now, x.val, y.val, z.val>>)
                                : z \in {ax_z(x.w)} })
                     : x \in {ax_x(y.w)} })
          : y \in {ax_y(w)} })

\* lines 165-168: the four appends; an axis read that raises leaves the
\* appends before it in the buffer
append_sample(w, b, now) ==
    The({ IF x.exc # "none" THEN Result(x.w, x.exc, Append(b, now))
          ELSE The({ IF y.exc # "none" THEN Result(y.w, y.exc, b \o <<now, x.val>>)
                     ELSE The({ IF z.exc # "none"
                                THEN Result(z.w, z.exc, b \o <<now, x.val, y.val>>)
                                ELSE Result(z.w, "none", b \o <<now, x.val, y.val, z.val>>)
                                : z \in {ax_z(y.w)} })
                     : y \in {ax_y(x.w)} })
          : x \in {ax_x(w)} })

\* The transport faults of one pass of read_buf's loop: none; the first
\* address send of ax_x failing once; that send failing for good; the
\* receive of ax_y's high byte failing
ReadBufFaults ==
    {NoFault, [from |-> 1, len |-> 1], [from |-> 1, len |-> DefaultMaxAttempts],
     [from |-> 6, len |-> 1]}

\* x = 0x8001, y = 0x7FFF, z = 0x0102 in the axis registers
AxisRegisters ==
    (ACCEL_XOUT_H :> 128) @@ (ACCEL_XOUT_L :> 1) @@ (ACCEL_YOUT_H :> 127) @@
    (ACCEL_YOUT_L :> 255) @@ (ACCEL_ZOUT_H :> 1) @@ (ACCEL_ZOUT_L :> 2) @@
    (PWR_MGMT_1 :> 1) @@ (ACCEL_CONFIG :> 0)

\* read_buf(number_of_samples, sample_period, prev_t) is called; t is not
\* bound yet (-1)
InitReadBuf ==
    /\ InitGlobals /\ InitHandle /\ InitInitIdle
    /\ regs = AxisRegisters
    /\ reg_ptr = ACCEL_XOUT_H
    /\ log = <<>>
    /\ pc = "read_buf"
    /\ exc = "none"
    /\ ret = None
    /\ rb_pc = "loop"
    /\ rb_i = 0
    /\ number_of_samples \in 0..MaxSamples
    /\ sample_period \in 0..MaxSamplePeriod
    /\ prev_t \in {0, TicksPeriod - 1}
    /\ args = [fn |-> "read_buf", prev_t |-> prev_t]
    /\ t = -1
    /\ buf = <<>>

\* A loop that reads the clock again, without counting the pass, until the
\* period has gone by
ReadBufPassWaiting ==
    /\ rb_pc = "loop"
    /\ rb_i < number_of_samples
    /\ \E now \in Ticks, fault \in ReadBufFaults :
         /\ t' = now
         /\ IF too_early(now, prev_t, sample_period)
            THEN /\ UNCHANGED <<i2c_object, constructed, regs, reg_ptr, prev_t, buf, exc,
                                rb_pc, rb_i>>
                 /\ log' = <<>>
            ELSE \E r \in {append_sample(World(fault), buf, now)} :
                     /\ Commit(r.w)
                     /\ rb_i' = rb_i + 1
                     /\ prev_t' = now
                     /\ buf' = r.val
                     /\ exc' = r.exc
                     /\ rb_pc' = IF r.exc = "none" THEN "loop" ELSE "raised"
    /\ UNCHANGED <<i2c_default_bus, pc, args, ret, hvars, ivars, number_of_samples,
                   sample_period>>

\* One pass of `for i in range(number_of_samples)`: the tick counter has
\* moved to any value since it was last read
ReadBufPass ==
    /\ rb_pc = "loop"
    /\ rb_i < number_of_samples
    /\ \E now \in Ticks, fault \in ReadBufFaults :
         /\ t' = now
         /\ rb_i' = rb_i + 1
         /\ IF too_early(now, prev_t, sample_period)
            THEN /\ UNCHANGED <<i2c_object, constructed, regs, reg_ptr, prev_t, buf, exc, rb_pc>>
                 /\ log' = <<>>
            ELSE \E r \in {append_sample(World(fault), buf, now)} :
                     /\ Commit(r.w)
                     /\ prev_t' = now
                     /\ buf' = r.val
                     /\ exc' = r.exc
                     /\ rb_pc' = IF r.exc = "none" THEN "loop" ELSE "raised"
    /\ UNCHANGED <<i2c_default_bus, pc, args, ret, hvars, ivars, number_of_samples,
                   sample_period>>

\* `return buf, t` once the loop is over; t is unbound when the loop made no pass
ReadBufReturn ==
    /\ rb_pc = "loop"
    /\ rb_i = number_of_samples
    /\ IF t = -1
       THEN rb_pc' = "raised" /\ exc' = "UnboundLocalError" /\ ret' = ret
       ELSE rb_pc' = "returned" /\ exc' = "none" /\ ret' = <<buf, t>>
    /\ UNCHANGED <<gvars, dvars, pc, args, hvars, ivars, rb_i, number_of_samples,
                   sample_period, prev_t, t, buf>>

NextReadBuf == ReadBufPass \/ ReadBufReturn

SpecReadBuf == InitReadBuf /\ [][NextReadBuf]_vars

\* read_buf runs in the only thread there is, which is never suspended: the
\* statement it is at is executed.
SpecReadBufFair == SpecReadBuf /\ WF_vars(NextReadBuf)

\* Timestamp of quadruple number q (from 0) of a buffer
Stamp(b, q) == b[4 * q + 1]
\* Quadruples begun in a buffer
Stamps(b) == (Len(b) + 3) \div 4

\* The tick difference a - b modulo TicksPeriod, as the number congruent to
\* it in [-TicksPeriod/2, TicksPeriod/2)
Elapsed(a, b) ==
    CHOOSE d \in (-(TicksPeriod \div 2))..(TicksPeriod - TicksPeriod \div 2 - 1) :
        (d - (a - b)) % TicksPeriod = 0

\* C1 as claimed: for count >= 1, read_buf returns a buffer of exactly
\* 4 * count integers.
C1_ReturnsCountQuadruples ==
    (rb_pc = "returned" /\ number_of_samples >= 1) => Len(buf) = 4 * number_of_samples

\* C2 as claimed: the second value read_buf returns is the timestamp of the
\* last quadruple of the buffer it returns.
C2_ReturnsLastTimestamp ==
    (rb_pc = "returned" /\ Len(ret[1]) >= 4) => ret[2] = ret[1][Len(ret[1]) - 3]

\* C3: every timestamp in the buffer is at least sample_period after the one
\* before it, the first at least sample_period after the prev_t read_buf was
\* given, in the modular tick difference; also across a wrap of the counter.
C3_PeriodEnforced ==
    \A q \in 0..(Stamps(buf) - 1) :
        Elapsed(Stamp(buf, q), IF q = 0 THEN args.prev_t ELSE Stamp(buf, q - 1))
            >= sample_period

\* A returned buffer of full samples, the counter having wrapped between two
\* of them.
C3_Witness ==
    /\ rb_pc = "returned"
    /\ sample_period >= 1
    /\ Len(buf) >= 8
    /\ Len(buf) % 4 = 0
    /\ \E q \in 1..(Stamps(buf) - 1) : Stamp(buf, q) < Stamp(buf, q - 1)

-----------------------------------------------------------------------------
(* ax_read and ax_write as their callers see them *)

\* The transport faults of one register access: none; the first transport
\* call failing once, three times, DefaultMaxAttempts times; the second
\* call (the receive of an ax_read whose send went through) failing once
AccessFaults ==
    {NoFault, [from |-> 1, len |-> 1], [from |-> 1, len |-> 3],
     [from |-> 1, len |-> DefaultMaxAttempts], [from |-> 2, len |-> 1]}

AccessRegisters == {PWR_MGMT_1, ACCEL_CONFIG}
AccessValues == {0, 9, 255, 256}

\* ax_read(reg, convert)
AxReadCall ==
    /\ \E reg \in AccessRegisters, convert \in BOOLEAN, fault \in AccessFaults :
         \E r \in {ax_read(World(fault), reg, convert)} :
             /\ Commit(r.w)
             /\ exc' = r.exc
             /\ ret' = r.val
             /\ args' = [fn |-> "ax_read", reg |-> reg, convert |-> convert,
                         fault |-> fault]
    /\ pc' = "ax_read"
    /\ UNCHANGED <<i2c_default_bus, hvars, ivars, rvars>>

\* ax_write(reg, value)
AxWriteCall ==
    /\ \E reg \in AccessRegisters, value \in AccessValues, fault \in AccessFaults :
         \E r \in {ax_write(World(fault), reg, value)} :
             /\ Commit(r.w)
             /\ exc' = r.exc
             /\ ret' = r.val
             /\ args' = [fn |-> "ax_write", reg |-> reg, value |-> value,
                         fault |-> fault]
    /\ pc' = "ax_write"
    /\ UNCHANGED <<i2c_default_bus, hvars, ivars, rvars>>

InitAccess ==
    /\ InitGlobals /\ InitCall /\ InitHandle /\ InitInitIdle /\ InitReadBufIdle
    /\ \E b \in InitialConfigBytes :
         regs = [r \in Registers |-> IF r \in AccessRegisters THEN b ELSE 0]
    /\ reg_ptr = ACCEL_XOUT_H
    /\ log = <<>>

NextAccess == AxReadCall \/ AxWriteCall

SpecAccess == InitAccess /\ [][NextAccess]_vars

\* Transport calls of a trace that failed
Failed(l) == Len(SelectSeq(l, LAMBDA e : e.op \in {"send", "recv"} /\ ~e.ok))

\* C11 as claimed: a failing bus transaction of ax_read (its address send or
\* its one-byte receive) or of ax_write (its send) is tried again, and the
\* access raises OSError only when DefaultMaxAttempts tries have failed.
C11_TransientRetried ==
    (pc \in {"ax_read", "ax_write"} /\ exc = "OSError") =>
        Failed(log) >= DefaultMaxAttempts

-----------------------------------------------------------------------------
(* twos_complement on 16-bit register pairs *)

\* What a pair of byte registers can hold: 0 .. TOP_16BIT - 1
Raw16 == 0..(TOP_16BIT - 1)

\* twos_complement(val, 16), as ax_x, ax_y and ax_z call it
TwosComplementCall ==
    /\ pc = "idle"
    /\ \E val \in Raw16 :
         /\ args' = [fn |-> "twos_complement", val |-> val, num_bits |-> 16]
         /\ ret' = twos_complement(val, 16)
    /\ pc' = "twos_complement"
    /\ exc' = "none"
    /\ UNCHANGED <<gvars, dvars, hvars, ivars, rvars>>

InitDecode ==
    InitGlobals /\ InitDevice /\ InitCall /\ InitHandle /\ InitInitIdle /\ InitReadBufIdle

NextDecode == TwosComplementCall

SpecDecode == InitDecode /\ [][NextDecode]_vars

\* C12: for every raw in 0..65535, twos_complement(raw, 16) is raw - 65536
\* when raw >= 32768 and raw otherwise; the result lies in -32768..32767; raw
\* is recovered from the result (result mod 65536), so no two raws share a
\* result; and the number raw - 32768, which runs over all of -32768..32767
\* as raw runs over 0..65535, is the result of the raw congruent to it, so
\* every number of -32768..32767 is a result.
C12_Decode16 ==
    pc = "twos_complement" =>
        /\ ret = IF args.val >= 32768 THEN args.val - 65536 ELSE args.val
        /\ ret \in (-32768)..32767
        /\ ret % 65536 = args.val
        /\ twos_complement((args.val - 32768) % 65536, 16) = args.val - 32768

\* The smallest raw with the sign bit set has been decoded.
C12_Witness ==
    /\ pc = "twos_complement"
    /\ args.val = 32768
    /\ ret = -32768

-----------------------------------------------------------------------------
(* ax_read_double on a register pair holding any two bytes *)

\* The register pairs ax_x, ax_y and ax_z read
AxisPairs ==
    {<<ACCEL_XOUT_H, ACCEL_XOUT_L>>, <<ACCEL_YOUT_H, ACCEL_YOUT_L>>,
     <<ACCEL_ZOUT_H, ACCEL_ZOUT_L>>}

HighRegisters == {p[1] : p \in AxisPairs}
LowRegisters == {p[2] : p \in AxisPairs}

\* The transport faults of one ax_read_double: none; the address send of the
\* high register failing once; the receive of the high byte failing; the
\* address send of the low register failing twice; that send failing for good
DoubleFaults ==
    {NoFault, [from |-> 1, len |-> 1], [from |-> 2, len |-> 1],
     [from |-> 3, len |-> 2], [from |-> 3, len |-> DefaultMaxAttempts]}

\* ax_read_double(addr_h, addr_l, as_list)
AxReadDoubleCall ==
    /\ pc = "idle"
    /\ \E pair \in AxisPairs, as_list \in BOOLEAN, fault \in DoubleFaults :
         \E r \in {ax_read_double(World(fault), pair[1], pair[2], as_list)} :
             /\ Commit(r.w)
             /\ exc' = r.exc
             /\ ret' = r.val
             /\ args' = [fn |-> "ax_read_double", addr_h |-> pair[1],
                         addr_l |-> pair[2], as_list |-> as_list, fault |-> fault]
    /\ pc' = "ax_read_double"
    /\ UNCHANGED <<i2c_default_bus, hvars, ivars, rvars>>

\* The high registers hold any byte and the low registers any byte.
InitDouble ==
    /\ InitGlobals /\ InitCall /\ InitHandle /\ InitInitIdle /\ InitReadBufIdle
    /\ \E high \in Bytes, low \in Bytes :
         regs = [r \in Registers |-> IF r \in HighRegisters THEN high
                                     ELSE IF r \in LowRegisters THEN low ELSE 0]
    /\ reg_ptr = PWR_MGMT_1
    /\ log = <<>>

NextDouble == AxReadDoubleCall

SpecDouble == InitDouble /\ [][NextDouble]_vars

\* A transport call that addresses the register: its address send or the
\* receive of its byte
Addresses(e, reg) == e.op \in {"send", "recv"} /\ e.data = <<reg>>

\* C13: in every run of ax_read_double, retried sends included, an address
\* send for addr_l comes only after the byte of addr_h has been received, and
\* from the first address send for addr_l on no transport call addresses
\* addr_h any more.
C13_HighBeforeLow ==
    pc = "ax_read_double" =>
        \A n \in 1..Len(log) :
            (log[n].op = "send" /\ log[n].data = <<args.addr_l>>) =>
                /\ \E m \in 1..(n - 1) : log[m] = Event("recv", <<args.addr_h>>, TRUE)
                /\ \A k \in n..Len(log) : ~Addresses(log[k], args.addr_h)

\* ax_read_double has returned after the address send of the low register
\* was retried.
C13_Witness ==
    /\ pc = "ax_read_double"
    /\ exc = "none"
    /\ \E n \in 1..Len(log) : log[n] = Event("send", <<args.addr_l>>, FALSE)
    /\ log[Len(log)] = Event("recv", <<args.addr_l>>, TRUE)

\* C14: whatever bytes the two registers hold, ax_read_double returns
\* high * 256 + low in combined form and the pair <<high, low>> in list form.
C14_CombinesHighLow ==
    (pc = "ax_read_double" /\ exc = "none") =>
        IF args.as_list
        THEN ret = <<regs[args.addr_h], regs[args.addr_l]>>
        ELSE ret = regs[args.addr_h] * 256 + regs[args.addr_l]

\* The combined form of high = 128, low = 1 has been returned.
C14_Witness ==
    /\ pc = "ax_read_double"
    /\ exc = "none"
    /\ ~args.as_list
    /\ regs[args.addr_h] = 128
    /\ regs[args.addr_l] = 1
    /\ ret = 32769

-----------------------------------------------------------------------------
(* init_accelerometer: discovery before configuration, the configuration *)

\* C15: every register access in init_accelerometer's trace comes after a
\* readiness poll that returned true; with do_scan a readiness poll comes
\* right after a scan that listed AX_ADDR; and a round whose scan did not list
\* AX_ADDR polls nothing, ends in the poll delay and leaves init_accelerometer
\* in discovery.
C15_ReadyBeforeConfig ==
    /\ \A n \in 1..Len(log) :
         log[n].op \in {"send", "recv"} =>
             \E m \in 1..(n - 1) : log[m].op = "is_ready" /\ log[m].ok
    /\ do_scan =>
         \A n \in 1..Len(log) :
             /\ log[n].op = "is_ready" =>
                  /\ n > 1
                  /\ log[n - 1].op = "scan"
                  /\ AX_ADDR \in log[n - 1].data
             /\ (log[n].op = "scan" /\ AX_ADDR \notin log[n].data) =>
                  /\ Len(log) = n + 1
                  /\ log[n + 1].op = "delay"
                  /\ log[n + 1].data = <<2 * PollDelay>>
                  /\ init_pc = "discover"

\* With do_scan the configuration has been written after rounds that waited.
C15_Witness ==
    /\ init_pc = "done"
    /\ do_scan
    /\ rounds >= 1
    /\ log[1].op = "scan"
    /\ log[2].op = "is_ready"
    /\ \E n \in 1..Len(log) : IsWrite(log[n])

\* The register writes a trace shows as served
ServedWrites(l) == SelectSeq(l, LAMBDA e : IsWrite(e) /\ e.ok)

\* The 2-bit field value of a full-scale range
FsField(range) == CASE range = 2 -> 0 [] range = 4 -> 1 [] range = 8 -> 2 [] range = 16 -> 3

\* A byte with its bits number lo .. lo + width - 1 replaced by field
WithField(byte, lo, width, field) ==
    byte - ((byte \div 2 ^ lo) % 2 ^ width) * 2 ^ lo + field * 2 ^ lo

\* The register write number n of a configuration that started from both
\* registers holding the byte old
ConfigWrite(n, old, range) ==
    CASE n = 1 -> <<PWR_MGMT_1, WithField(old, 0, 3, 1)>>
      [] n = 2 -> <<ACCEL_CONFIG, WithField(old, 3, 2, FsField(range))>>
      [] n = 3 -> <<PWR_MGMT_1, WithField(WithField(old, 0, 3, 1), 6, 1, 0)>>

\* C16: for a range of 2, 4, 8 or 16 g the writes init_accelerometer has
\* served are, in order, the clock select bits of PWR_MGMT_1 set to 1, the
\* full-scale bits of ACCEL_CONFIG set to 0, 1, 2, 3 for 2, 4, 8, 16 g, the
\* sleep bit of PWR_MGMT_1 cleared, every other bit as the register held it;
\* and when init_accelerometer has returned there are exactly these three,
\* clock select is 1, the full-scale field is the range's, the sleep bit is 0
\* and the other bits of both registers are as they were.
C16_ThreeMaskedWrites ==
    full_scale_choice \in {2, 4, 8, 16} =>
        /\ Len(ServedWrites(log)) <= 3
        /\ \A n \in 1..Len(ServedWrites(log)) :
             ServedWrites(log)[n].data = ConfigWrite(n, args.old, full_scale_choice)
        /\ \A n \in 1..Len(log) :
             IsWrite(log[n]) =>
                 \E k \in 1..3 : log[n].data = ConfigWrite(k, args.old, full_scale_choice)
        /\ init_pc = "done" =>
             /\ Len(ServedWrites(log)) = 3
             /\ regs[PWR_MGMT_1] = ConfigWrite(3, args.old, full_scale_choice)[2]
             /\ regs[ACCEL_CONFIG] = ConfigWrite(2, args.old, full_scale_choice)[2]
             /\ regs[PWR_MGMT_1] % 8 = 1
             /\ (regs[PWR_MGMT_1] \div 64) % 2 = 0
             /\ (regs[ACCEL_CONFIG] \div 8) % 4 = FsField(full_scale_choice)

\* init_accelerometer has returned for 16 g from registers holding 165, one
\* write having been retried.
C16_Witness ==
    /\ init_pc = "done"
    /\ full_scale_choice = 16
    /\ args.old = 165
    /\ regs[PWR_MGMT_1] = 161
    /\ regs[ACCEL_CONFIG] = 189
    /\ \E n \in 1..Len(log) : IsWrite(log[n]) /\ ~log[n].ok

ConfigPcs == {"set_clock", "set_full_scale", "disable_sleep"}

\* C17: an exception raised in a configuration step leaves init_accelerometer
\* (the step does not carry on and discovery is not entered again); once it
\* has left, init_accelerometer puts nothing more on the bus and changes no
\* register; and when the exception is OSError the last bus operation in the
\* trace is the transport call that failed.
C17_ConfigErrorPropagates ==
    /\ [][(init_pc \in ConfigPcs /\ exc' # "none") => init_pc' = "raised"]_vars
    /\ [][init_pc = "raised" =>
            (init_pc' = "raised" /\ exc' = exc /\ log' = log /\ regs' = regs)]_vars
    /\ []((init_pc = "raised" /\ exc = "OSError") =>
            \E n \in 1..Len(log) :
                /\ log[n].op \in {"send", "recv"}
                /\ ~log[n].ok
                /\ \A k \in (n + 1)..Len(log) : log[k].op = "delay")

\* A configuration step has raised OSError after an earlier step's write
\* was served.
C17_Witness ==
    /\ init_pc = "raised"
    /\ exc = "OSError"
    /\ \E n \in 1..Len(log) : IsWrite(log[n]) /\ log[n].ok

-----------------------------------------------------------------------------
(* ax_write_masked: the read before the write *)

\* The receives of a trace
Recvs(l) == SelectSeq(l, LAMBDA e : e.op = "recv")

\* The read of the register's old value did not deliver: its address send
\* was given up before any receive, or its receive failed
InitialReadFailed(l) == Recvs(l) = <<>> \/ ~Recvs(l)[1].ok

\* C18: when the read of the old value fails, ax_write_masked raises with no
\* register write on the bus and the register as it was; and in every run a
\* register write comes only after the old value was received, at most one
\* register write is served, and all attempts of it carry the same bytes.
C18_NoWriteWithoutRead ==
    pc = "ax_write_masked" =>
        /\ InitialReadFailed(log) =>
             /\ exc = "OSError"
             /\ \A n \in 1..Len(log) : ~IsWrite(log[n])
             /\ regs[args.reg] = args.old
        /\ \A n \in 1..Len(log) :
             IsWrite(log[n]) =>
                 /\ \E m \in 1..(n - 1) :
                      /\ log[m] = Event("recv", <<args.reg>>, TRUE)
                      /\ \A k \in 1..m : ~IsWrite(log[k])
                 /\ \A k \in 1..Len(log) : IsWrite(log[k]) => log[k].data = log[n].data
        /\ Len(ServedWrites(log)) <= 1

\* ax_write_masked has raised on the failed receive of the old value, with
\* a mask and a value that would have changed the register.
C18_Witness ==
    /\ pc = "ax_write_masked"
    /\ exc = "OSError"
    /\ Recvs(log) # <<>>
    /\ ~Recvs(log)[1].ok
    /\ reg_val(args.old, args.bitmask, masked_val(args.value, args.bitmask)) \in Bytes \ {args.old}
    /\ regs[args.reg] = args.old

-----------------------------------------------------------------------------
(* read_buf: the loop's passes and what it appends *)

ServedRecvs(l) == SelectSeq(l, LAMBDA e : e.op = "recv" /\ e.ok)

\* The axis value of a register pair holding high and low
Scaled(high, low) ==
    ((IF high * 256 + low >= 32768 THEN high * 256 + low - 65536 ELSE high * 256 + low)
        * FULL_SCALE_CHOICE) \div 4

\* The quadruple of a sample taken at tick now
Quadruple(now) ==
    <<now, Scaled(regs[ACCEL_XOUT_H], regs[ACCEL_XOUT_L]),
           Scaled(regs[ACCEL_YOUT_H], regs[ACCEL_YOUT_L]),
           Scaled(regs[ACCEL_ZOUT_H], regs[ACCEL_ZOUT_L])>>

\* C20: a buffer read_buf returns has a length that is a multiple of 4 and at
\* most 4 * number_of_samples; a pass leaves the buffer alone or appends to
\* it; a pass that does not raise appends nothing or one quadruple: the clock
\* value read in that pass, then the values of the x, y and z axes, the bytes
\* of which were received in that pass in the order x high, x low, y high,
\* y low, z high, z low.
C20_BufferOfQuadruples ==
    /\ [](rb_pc = "returned" =>
            /\ Len(buf) % 4 = 0
            /\ Len(buf) <= 4 * number_of_samples
            /\ ret[1] = buf
            /\ \A q \in 0..(Len(buf) \div 4 - 1) :
                 SubSeq(buf, 4 * q + 1, 4 * q + 4) = Quadruple(buf[4 * q + 1]))
    /\ [][/\ Len(buf') >= Len(buf)
          /\ SubSeq(buf', 1, Len(buf)) = buf
          /\ rb_pc' # "raised" =>
               \/ buf' = buf
               \/ /\ buf' = buf \o Quadruple(t')
                  /\ [n \in 1..Len(ServedRecvs(log')) |-> ServedRecvs(log')[n].data[1]]
                       = <<ACCEL_XOUT_H, ACCEL_XOUT_L, ACCEL_YOUT_H, ACCEL_YOUT_L,
                           ACCEL_ZOUT_H, ACCEL_ZOUT_L>>]_vars

\* read_buf has returned two quadruples, then a pass that took no sample.
C20_Witness ==
    /\ rb_pc = "returned"
    /\ number_of_samples = 3
    /\ Len(buf) = 8
    /\ buf[1] # buf[5]
    /\ t # buf[5]

====
